---- MODULE Spec2Model ----
(***************************************************************************)
(* A model of libscanbuild (src/libscanbuild/__init__.py): the compiler    *)
(* wrapper protocol (wrapper_environment / wrapper_entry_point), the       *)
(* duplicate filter (duplicate_check), the logging verbosity               *)
(* (reconfigure_logging), the entry guard (command_entry_point) and the    *)
(* command runner (run_build, run_command); and of the require decorator   *)
(* of src/analyzer/decorators.py.                                          *)
(*                                                                         *)
(* Python strings are modelled as sequences of characters, a character     *)
(* being a one-character TLA+ string (the non-ASCII character e-acute is   *)
(* the atom "U00e9").  An optional value is a sequence of length 0 or 1.   *)
(***************************************************************************)
EXTENDS Integers, Sequences, FiniteSets, TLC

VARIABLES
  environ,   \* os.environ seen by the wrappers: <<>> (key absent) or <<transport string>>
  parent,    \* the args the orchestrating process encoded: <<>> or <<args>>
  proc,      \* the wrapper processes, one record each
  filters,   \* the predicates made by duplicate_check: hash function, state, calls
  guard,     \* one process running a function under command_entry_point
  runner,    \* one call of run_command
  req        \* one function decorated with require, and one call of it

vars == <<environ, parent, proc, filters, guard, runner, req>>

None == <<>>
Some(x) == <<x>>

-----------------------------------------------------------------------------
(* Bounds of the model.                                                    *)

MaxPathLen == 2     \* longest generated compiler path of the codec check
MaxNameLen == 4     \* longest generated argv[0]
MaxVerbose == 5     \* largest verbose level
NumProcs == 2       \* wrapper processes running concurrently
MaxCalls == 4       \* predicate calls made on the duplicate filters

-----------------------------------------------------------------------------
(* Character strings.                                                      *)

RECURSIVE SeqsUpTo(_, _)
SeqsUpTo(S, n) ==
  IF n = 0 THEN {<<>>}
  ELSE LET shorter == SeqsUpTo(S, n - 1)
       IN  shorter \cup {Append(s, c) : s \in shorter, c \in S}

Digits == <<"0", "1", "2", "3", "4", "5", "6", "7", "8", "9">>

IsDigit(c) == \E d \in 1..10 : Digits[d] = c

DigitVal(c) == (CHOOSE d \in 1..10 : Digits[d] = c) - 1

\* str(n) of a non-negative integer, as json.dumps writes it
RECURSIVE IntToChars(_)
IntToChars(n) ==
  IF n < 10 THEN <<Digits[n + 1]>>
  ELSE IntToChars(n \div 10) \o <<Digits[(n % 10) + 1]>>

-----------------------------------------------------------------------------
(* JSON values: an integer, a string, or an object (a function from key    *)
(* strings to JSON values).                                                *)

JInt(n) == [type |-> "int", v |-> n]
JStr(s) == [type |-> "str", v |-> s]
JObj(f) == [type |-> "obj", v |-> f]

K_verbose == <<"v", "e", "r", "b", "o", "s", "e">>
K_cc == <<"c", "c">>
K_cxx == <<"c", "x", "x">>

(* json.dumps (ensure_ascii=True): the escape of one character of a string *)
EscapeChar(c) ==
  CASE c = "\"" -> <<"\\", "\"">>
    [] c = "\\" -> <<"\\", "\\">>
    [] c = "\n" -> <<"\\", "n">>
    [] c = "U00e9" -> <<"\\", "u", "0", "0", "e", "9">>
    [] OTHER -> <<c>>

RECURSIVE EscapeChars(_)
EscapeChars(s) ==
  IF s = <<>> THEN <<>> ELSE EscapeChar(Head(s)) \o EscapeChars(Tail(s))

encode_basestring_ascii(s) == <<"\"">> \o EscapeChars(s) \o <<"\"">>

dumps_value(j) ==
  IF j.type = "int" THEN IntToChars(j.v) ELSE encode_basestring_ascii(j.v)

\* the members of a dict, in insertion order, joined by ", " with ": " after the key
RECURSIVE dumps_items(_)
dumps_items(items) ==
  IF items = <<>> THEN <<>>
  ELSE encode_basestring_ascii(Head(items)[1]) \o <<":", " ">>
       \o dumps_value(Head(items)[2])
       \o (IF Len(items) > 1 THEN <<",", " ">> ELSE <<>>)
       \o dumps_items(Tail(items))

json_dumps(items) == <<"{">> \o dumps_items(items) \o <<"}">>

(* json.loads: a parse result is [ok, val, pos], pos the index after the   *)
(* value.  A failed parse is the ValueError json.loads raises.             *)
ParseFail == [ok |-> FALSE, val |-> JInt(0), pos |-> 0]
Parsed(j, i) == [ok |-> TRUE, val |-> j, pos |-> i]

RECURSIVE skip_ws(_, _)
skip_ws(t, i) ==
  IF i <= Len(t) /\ t[i] \in {" ", "\n"} THEN skip_ws(t, i + 1) ELSE i

\* the string whose opening quote is before index i; acc is what is decoded so far
RECURSIVE scanstring(_, _, _)
scanstring(t, i, acc) ==
  IF i > Len(t) THEN ParseFail
  ELSE IF t[i] = "\"" THEN Parsed(JStr(acc), i + 1)
  ELSE IF t[i] = "\\" THEN
    IF i + 1 > Len(t) THEN ParseFail
    ELSE IF t[i + 1] \in {"\"", "\\", "/"}
      THEN scanstring(t, i + 2, Append(acc, t[i + 1]))
    ELSE IF t[i + 1] = "n" THEN scanstring(t, i + 2, Append(acc, "\n"))
    ELSE IF t[i + 1] = "u" THEN
      \* the one \uXXXX code point of the model's alphabet
      IF i + 5 <= Len(t) /\ SubSeq(t, i + 2, i + 5) = <<"0", "0", "e", "9">>
      THEN scanstring(t, i + 6, Append(acc, "U00e9"))
      ELSE ParseFail
    ELSE ParseFail
  ELSE IF t[i] = "\n" THEN ParseFail   \* a raw control character (strict mode)
  ELSE scanstring(t, i + 1, Append(acc, t[i]))

RECURSIVE scannumber(_, _, _)
scannumber(t, i, acc) ==
  IF i <= Len(t) /\ IsDigit(t[i])
  THEN scannumber(t, i + 1, 10 * acc + DigitVal(t[i]))
  ELSE Parsed(JInt(acc), i)

RECURSIVE scan_once(_, _)
RECURSIVE scan_members(_, _, _)

\* the members of an object after "{" or ","; obj is the object so far
scan_members(t, i0, obj) ==
  LET i == skip_ws(t, i0)
  IN
  IF i > Len(t) \/ t[i] # "\"" THEN ParseFail
  ELSE
    LET key == scanstring(t, i + 1, <<>>)
    IN
    IF ~key.ok THEN ParseFail
    ELSE
      LET c == skip_ws(t, key.pos)
      IN
      IF c > Len(t) \/ t[c] # ":" THEN ParseFail
      ELSE
        LET val == scan_once(t, skip_ws(t, c + 1))
        IN
        IF ~val.ok THEN ParseFail
        ELSE
          LET e == skip_ws(t, val.pos)
              \* a repeated key keeps its last value
              obj2 == [k \in DOMAIN obj \cup {key.val.v} |->
                         IF k = key.val.v THEN val.val ELSE obj[k]]
          IN
          IF e > Len(t) THEN ParseFail
          ELSE IF t[e] = "}" THEN Parsed(JObj(obj2), e + 1)
          ELSE IF t[e] = "," THEN scan_members(t, e + 1, obj2)
          ELSE ParseFail

scan_once(t, i) ==
  IF i > Len(t) THEN ParseFail
  ELSE IF t[i] = "\"" THEN scanstring(t, i + 1, <<>>)
  ELSE IF IsDigit(t[i]) THEN
    \* a number has no leading zero
    IF t[i] = "0" /\ i + 1 <= Len(t) /\ IsDigit(t[i + 1]) THEN Parsed(JInt(0), i + 1)
    ELSE scannumber(t, i, 0)
  ELSE IF t[i] = "{" THEN
    LET j == skip_ws(t, i + 1)
    IN
    IF j <= Len(t) /\ t[j] = "}" THEN Parsed(JObj(<<>>), j + 1)
    ELSE scan_members(t, i + 1, <<>>)
  ELSE ParseFail

\* json.loads(t): one value, white space around it, and nothing after it
json_loads(t) ==
  LET r == scan_once(t, skip_ws(t, 1))
  IN
  IF r.ok /\ skip_ws(t, r.pos) = Len(t) + 1 THEN r ELSE ParseFail

-----------------------------------------------------------------------------
(* Logging: the root logger's level and format.                            *)

WARNING == 30
DEBUG == 10

\* a format string is the sequence of the record fields it prints:
\* '%(name)s: %(levelname)s: %(message)s' is <<"name", "levelname", "message">>
FMT_DEFAULT == <<"levelname", "name", "message">>
FMT_BASIC == <<"name", "message">>
FMT_SHORT == <<"name", "levelname", "message">>
FMT_FUNC == <<"name", "levelname", "funcName", "message">>

Min(a, b) == IF a <= b THEN a ELSE b

\* the root logger before any configuration
RootLogger == [level |-> WARNING, fmt |-> FMT_DEFAULT, handlers |-> 0]

\* variant: the level is WARNING - 10 * verbose_level, without the min
reconfigure_logging_unbounded(root, verbose_level) ==
  IF verbose_level = 0 THEN root
  ELSE [level |-> WARNING - 10 * verbose_level,
        fmt |-> IF verbose_level <= 3 THEN FMT_SHORT ELSE FMT_FUNC,
        handlers |-> 1]

\* variant: the function name is printed from level 3 on
reconfigure_logging_from_three(root, verbose_level) ==
  IF verbose_level = 0 THEN root
  ELSE [level |-> WARNING - Min(WARNING, 10 * verbose_level),
        fmt |-> IF verbose_level < 3 THEN FMT_SHORT ELSE FMT_FUNC,
        handlers |-> 1]

reconfigure_logging(root, verbose_level) ==
  IF verbose_level = 0 THEN root
  ELSE [level |-> WARNING - Min(WARNING, 10 * verbose_level),
        fmt |-> IF verbose_level <= 3 THEN FMT_SHORT ELSE FMT_FUNC,
        handlers |-> 1]

-----------------------------------------------------------------------------
(* The wrapper configuration and its transport through the environment.    *)

\* variant: the two paths written under each other's key
wrapper_environment_swapped(args) ==
  json_dumps(<< <<K_verbose, JInt(args.verbose)>>,
                <<K_cc, JStr(args.cxx)>>,
                <<K_cxx, JStr(args.cc)>> >>)

\* the value of ENVIRONMENT_KEY in the dictionary wrapper_environment returns
wrapper_environment(args) ==
  json_dumps(<< <<K_verbose, JInt(args.verbose)>>,
                <<K_cc, JStr(args.cc)>>,
                <<K_cxx, JStr(args.cxx)>> >>)

\* parameters[key]: the exception it raises, or "" when it yields a value
GetItemError(parameters, key) ==
  IF parameters.type # "obj" THEN "TypeError"
  ELSE IF key \notin DOMAIN parameters.v THEN "KeyError"
  ELSE ""

-----------------------------------------------------------------------------
(* The personality of a wrapper.                                           *)

\* os.path.basename: what follows the last "/"
\* variant: the whole of sys.argv[0] is matched, directories included
basename_whole_path(path) == path

basename(path) ==
  LET slashes == {i \in 1..Len(path) : path[i] = "/"}
  IN  IF slashes = {} THEN path
      ELSE LET last == CHOOSE i \in slashes : \A j \in slashes : j <= i
           IN  SubSeq(path, last + 1, Len(path))

\* the substring "c++" starts at index i of s
CxxAt(s, i) ==
  /\ i >= 1
  /\ i + 2 <= Len(s)
  /\ s[i] = "c" /\ s[i + 1] = "+" /\ s[i + 2] = "+"

\* the pattern *c++*: "c++" anywhere in the name
is_cxx_any_prefix(wrapper_command) ==
  \E i \in 1..Len(wrapper_command) : CxxAt(wrapper_command, i)

\* variant: a pattern that takes "++" for the C++ mark
is_cxx_plusplus(wrapper_command) ==
  \E i \in 2..Len(wrapper_command) :
     /\ i + 1 <= Len(wrapper_command)
     /\ wrapper_command[i] = "+" /\ wrapper_command[i + 1] = "+"

\* re.match(r'(.+)c\+\+(.*)', wrapper_command): "c++" after a non-empty
\* prefix in which "." matches every character but a newline
is_cxx(wrapper_command) ==
  \E i \in 2..Len(wrapper_command) :
     /\ CxxAt(wrapper_command, i)
     /\ \A j \in 1..(i - 1) : wrapper_command[j] # "\n"

\* libscanbuild.shell.decode of the compiler: the resolved path as the one
\* element of the command's head
decode(compiler) == <<compiler>>

\* variant: the first argument is taken for the program name and dropped
build_command_dropping(compiler, argv) ==
  decode(compiler) \o (IF Len(argv) > 1 THEN Tail(Tail(argv)) ELSE <<>>)

\* command = decode(compiler) + sys.argv[1:]
build_command(compiler, argv) == decode(compiler) \o Tail(argv)

-----------------------------------------------------------------------------
(* The inputs of the wrapper model.                                        *)

P_clang == <<"/", "u", "s", "r", "/", "b", "i", "n", "/", "c", "l", "a", "n", "g">>
P_clangpp == P_clang \o <<"+", "+">>
P_spaced == <<"/", "m", "y", " ", "c", "c">>
P_quoted == <<"c", "\"", "\\", "U00e9">>
N_clangpp == <<"c", "l", "a", "n", "g", "+", "+">>
N_intercept_cc == <<"i", "n", "t", "e", "r", "c", "e", "p", "t", "-", "c", "c">>
N_intercept_cxx == <<"i", "n", "t", "e", "r", "c", "e", "p", "t", "-", "c", "+", "+">>
N_target_cxx == <<"x", "8", "6", "_", "6", "4", "-", "c", "+", "+", "-", "1", "3">>
N_newline_cxx == <<"x", "\n", "c", "+", "+">>
A_c == <<"-", "c">>
A_file == <<"a", " ", "b", ".", "c">>

ClangConfig == [verbose |-> 0, cc |-> P_clang, cxx |-> P_clangpp]

\* configurations the orchestrating process encodes
Configs ==
  {ClangConfig, [verbose |-> MaxVerbose - 1, cc |-> P_spaced, cxx |-> P_quoted]}

\* argv[0] of a wrapper: the names wrappers are installed or linked under
N_cxx == <<"c", "+", "+">>
Argv0s ==
  {N_intercept_cc, N_intercept_cxx, N_clangpp, N_cxx,
   <<"/", "b", "i", "n", "/">> \o N_intercept_cxx}

\* argv[1:] of a wrapper
ArgVectors == {<<>>, <<A_c, A_file>>, <<A_file, A_c, A_c>>}

Argvs == {<<n>> \o a : n \in Argv0s, a \in ArgVectors}

\* every short argv[0] over a small alphabet, and some longer ones
NameAlphabet == {"c", "+", "/", "x"}
GeneratedArgv0s ==
  (SeqsUpTo(NameAlphabet, MaxNameLen) \ {<<>>})
    \cup Argv0s \cup {N_target_cxx, N_newline_cxx}

GeneratedArgvs == {<<n, A_c>> : n \in GeneratedArgv0s}

\* transport values no orchestrating process wrote
T_truncated == <<"{", "\"", "v", "e", "r">>
T_empty_object == <<"{", "}">>
T_no_cxx == json_dumps(<< <<K_verbose, JInt(0)>>, <<K_cc, JStr(P_clang)>> >>)
ForeignTransports == {<<>>, T_truncated, T_empty_object, T_no_cxx}

\* what subprocess.call(command) does: the child's exit code, or a failure
Exited(code) == [kind |-> "exit", code |-> code, exc |-> ""]
Raises(exc) == [kind |-> "raise", code |-> 0, exc |-> exc]
Returns(value) == [kind |-> "return", code |-> value, exc |-> ""]
ExitCodes == {0, 1, 64, 130}
CompileOutcomes ==
  {Exited(c) : c \in ExitCodes} \cup {Raises("OSError"), Raises("KeyboardInterrupt")}

\* what the decorated function does
FunctionOutcomes ==
  {Returns(0), Returns(7), Raises("Exception"), Raises("KeyboardInterrupt"),
   Raises("SystemExit")}

-----------------------------------------------------------------------------
(* wrapper_entry_point: one wrapper process.                               *)

Procs == 1..NumProcs

NotStarted ==
  [pc |-> "NotStarted", argv |-> <<>>, environ |-> None, parameters |-> None,
   compiler |-> None, command |-> None, result |-> None,
   executed |-> <<>>, reported |-> <<>>, logged |-> <<>>,
   ret |-> None, exc |-> None, swallowed |-> None, root |-> RootLogger]

Raise(w, exc) == [w EXCEPT !.pc = "Raised", !.exc = Some(exc)]

\* lines 173-175: [err, val], err the exception raised or ""
load_parameters(env) ==
  IF env = None THEN [err |-> "KeyError", val |-> JInt(0)]
  ELSE LET loaded == json_loads(env[1])
       IN  IF ~loaded.ok THEN [err |-> "ValueError", val |-> JInt(0)]
           ELSE IF GetItemError(loaded.val, K_verbose) # ""
             THEN [err |-> GetItemError(loaded.val, K_verbose), val |-> loaded.val]
           ELSE IF loaded.val.v[K_verbose].type # "int"
             THEN [err |-> "TypeError", val |-> loaded.val]
           ELSE [err |-> "", val |-> loaded.val]

\* the process is started as argv, inheriting the environment
Spawn(p, argv) ==
  /\ proc[p].pc = "NotStarted"
  /\ proc' = [proc EXCEPT ![p] = [@ EXCEPT !.pc = "Start", !.argv = argv,
                                             !.environ = environ]]
  /\ UNCHANGED <<environ, parent, filters, guard, runner, req>>

\* Start -> ConfigLoaded: json.loads of the transport, reconfigure_logging
LoadConfig(p) ==
  /\ proc[p].pc = "Start"
  /\ LET w == proc[p]
         got == load_parameters(w.environ)
     IN  proc' = [proc EXCEPT ![p] =
           IF got.err # "" THEN Raise(w, got.err)
           ELSE [w EXCEPT !.pc = "ConfigLoaded",
                          !.parameters = Some(got.val),
                          !.root = reconfigure_logging(w.root, got.val.v[K_verbose].v)]]
  /\ UNCHANGED <<environ, parent, filters, guard, runner, req>>

select_compiler_key(wrapper_command) ==
  IF is_cxx(wrapper_command) THEN K_cxx ELSE K_cc

\* ConfigLoaded -> PersonalityResolved: lines 178-180
ResolvePersonality(p) ==
  /\ proc[p].pc = "ConfigLoaded"
  /\ LET w == proc[p]
         key == select_compiler_key(basename(w.argv[1]))
         err == GetItemError(w.parameters[1], key)
     IN  proc' = [proc EXCEPT ![p] =
           IF err # "" THEN Raise(w, err)
           ELSE [w EXCEPT !.pc = "PersonalityResolved",
                          !.compiler = Some(w.parameters[1].v[key].v)]]
  /\ UNCHANGED <<environ, parent, filters, guard, runner, req>>

\* PersonalityResolved -> Compiled: lines 182-185
Compile(p, o) ==
  /\ proc[p].pc = "PersonalityResolved"
  /\ LET w == proc[p]
         command == build_command(w.compiler[1], w.argv)
         ran == [w EXCEPT !.command = Some(command),
                          !.executed = IF o.exc = "OSError" THEN @ ELSE Append(@, command)]
     IN  proc' = [proc EXCEPT ![p] =
           IF o.kind = "raise" THEN Raise(ran, o.exc)
           ELSE [ran EXCEPT !.pc = "Compiled", !.result = Some(o.code)]]
  /\ UNCHANGED <<environ, parent, filters, guard, runner, req>>

\* variant: "except Exception:" in place of the bare except
caught_exception_only(exc) == exc \notin {"KeyboardInterrupt", "SystemExit"}

\* the bare "except:" of line 190 catches every exception
caught(exc) == TRUE

\* Compiled -> Reported: lines 187-191
\* variant: the wrapper's own name is passed for the compiler
call_kwargs_wrapper_name(w) ==
  [compiler |-> basename(w.argv[1]), command |-> w.command[1],
   result |-> w.result[1],
   cc |-> w.parameters[1].v[K_cc].v, cxx |-> w.parameters[1].v[K_cxx].v]

\* lines 187-189: the keyword arguments of the call of the decorated function
call_kwargs(w) ==
  [compiler |-> w.compiler[1], command |-> w.command[1],
   result |-> w.result[1],
   cc |-> w.parameters[1].v[K_cc].v, cxx |-> w.parameters[1].v[K_cxx].v]

Report(p, o) ==
  /\ proc[p].pc = "Compiled"
  /\ LET w == proc[p]
         params == w.parameters[1]
         \* cc=parameters['cc'], cxx=parameters['cxx'] are evaluated before the call
         argErr == IF GetItemError(params, K_cc) # "" THEN GetItemError(params, K_cc)
                   ELSE GetItemError(params, K_cxx)
         called == [w EXCEPT !.reported = Append(@, call_kwargs(w))]
         failed(v, exc) ==
           IF caught(exc)
           THEN [v EXCEPT !.pc = "Reported", !.swallowed = Some(exc),
                          !.logged = Append(@, "Compiler wrapper failed complete.")]
           ELSE Raise(v, exc)
     IN  proc' = [proc EXCEPT ![p] =
           IF argErr # "" THEN failed(w, argErr)
           ELSE IF o.kind = "raise" THEN failed(called, o.exc)
           ELSE [called EXCEPT !.pc = "Reported"]]
  /\ UNCHANGED <<environ, parent, filters, guard, runner, req>>

\* variant: the result kept in state shared by the wrappers
return_value_shared(ps, p) ==
  ps[CHOOSE q \in Procs : ps[q].result # None /\ \A r \in Procs : ps[r].result # None => q <= r].result

\* line 193: return result
return_value(ps, p) == ps[p].result

\* Reported -> Exit
Return(p) ==
  /\ proc[p].pc = "Reported"
  /\ proc' = [proc EXCEPT ![p] = [@ EXCEPT !.pc = "Exit", !.ret = return_value(proc, p)]]
  /\ UNCHANGED <<environ, parent, filters, guard, runner, req>>

\* the orchestrating process puts wrapper_environment(args) in the environment, once
ParentSetEnv(args) ==
  /\ parent = None
  /\ parent' = Some(args)
  /\ environ' = Some(wrapper_environment(args))
  /\ UNCHANGED <<proc, filters, guard, runner, req>>

-----------------------------------------------------------------------------
(* duplicate_check: the predicates it makes, each with its own state.      *)

FilterIds == {"p", "q"}
Entries == {"A", "B", "C"}
HashValues == {"h1", "h2"}

\* the hash functions a caller may pass
HashFunctions == [Entries -> HashValues]

\* variant: the hash is never stored
predicate_body_forgetful(state, entry_hash) ==
  IF entry_hash \notin state
  THEN [state |-> state, result |-> FALSE]
  ELSE [state |-> state, result |-> TRUE]

\* variant: the state keeps the last new hash only
predicate_body_replacing(state, entry_hash) ==
  IF entry_hash \notin state
  THEN [state |-> {entry_hash}, result |-> FALSE]
  ELSE [state |-> state, result |-> TRUE]

\* lines 41-44: the state after the call and the value returned
predicate_body(state, entry_hash) ==
  IF entry_hash \notin state
  THEN [state |-> state \cup {entry_hash}, result |-> FALSE]
  ELSE [state |-> state, result |-> TRUE]

\* variant: one set at module level, shared by every predicate
closure_state_shared(fs, f) == UNION {fs[g].state : g \in DOMAIN fs}

\* line 46: the set of the closure of the predicate f
closure_state(fs, f) == fs[f].state

TotalCalls ==
  LET RECURSIVE Sum(_)
      Sum(S) == IF S = {} THEN 0
                ELSE LET f == CHOOSE x \in S : TRUE
                     IN  Len(filters[f].calls) + Sum(S \ {f})
  IN  Sum(DOMAIN filters)

\* duplicate_check(hash_function): a new predicate f with the empty state
duplicate_check(f, hash_function) ==
  /\ f \notin DOMAIN filters
  /\ filters' = [g \in DOMAIN filters \cup {f} |->
                   IF g = f
                   THEN [hash_function |-> hash_function, state |-> {}, calls |-> <<>>]
                   ELSE filters[g]]
  /\ UNCHANGED <<environ, parent, proc, guard, runner, req>>

\* predicate(entry) of the predicate f
predicate(f, entry) ==
  /\ f \in DOMAIN filters
  /\ TotalCalls < MaxCalls
  /\ LET entry_hash == filters[f].hash_function[entry]
         after == predicate_body(closure_state(filters, f), entry_hash)
     IN  filters' = [filters EXCEPT ![f] =
           [@ EXCEPT !.state = after.state,
                     !.calls = Append(@, [entry |-> entry, result |-> after.result])]]
  /\ UNCHANGED <<environ, parent, proc, guard, runner, req>>

-----------------------------------------------------------------------------
(* command_entry_point: a function run under the guard.                    *)

INTERRUPTED == 130
INTERNAL_ERROR == 64

ReturnsNone == [kind |-> "return_none", code |-> 0, exc |-> ""]

\* run_build: the exit code of the build, whatever it is (lines 64-66)
run_build(exit_code) == exit_code

\* exit codes of a build command: success, failures, and sysexits' EX_USAGE
\* (64) and a shell's "killed by SIGINT" (130)
BuildExitCodes == {0, 1, 2, 64, 130}

\* what the wrapped function does: it returns run_build's exit code or
\* nothing, or raises
GuardedOutcomes ==
  {Returns(run_build(c)) : c \in BuildExitCodes}
    \cup {ReturnsNone, Raises("KeyboardInterrupt"), Raises("Exception"),
          Raises("SystemExit")}

\* isinstance(exc, Exception): SystemExit and KeyboardInterrupt derive from
\* BaseException only
IsException(exc) == exc \notin {"KeyboardInterrupt", "SystemExit"}

\* variant: no clause of its own for KeyboardInterrupt
guard_clauses_interrupt_as_error(root, o) ==
  IF o.kind = "return" THEN [ret |-> Some(o.code), exc |-> None, logged |-> <<>>]
  ELSE IF o.kind = "return_none" THEN [ret |-> None, exc |-> None, logged |-> <<>>]
  ELSE IF IsException(o.exc) \/ o.exc = "KeyboardInterrupt"
    THEN [ret |-> Some(INTERNAL_ERROR), exc |-> None, logged |-> <<"Internal error.">>]
  ELSE [ret |-> None, exc |-> Some(o.exc), logged |-> <<>>]

\* lines 134-146: what the try statement returns or lets through, and logs
guard_clauses(root, o) ==
  IF o.kind = "return" THEN [ret |-> Some(o.code), exc |-> None, logged |-> <<>>]
  ELSE IF o.kind = "return_none" THEN [ret |-> None, exc |-> None, logged |-> <<>>]
  ELSE IF o.exc = "KeyboardInterrupt"
    THEN [ret |-> Some(INTERRUPTED), exc |-> None, logged |-> <<"Keyboard interrupt">>]
  ELSE IF IsException(o.exc)
    THEN [ret |-> Some(INTERNAL_ERROR), exc |-> None,
          logged |-> <<"Internal error.",
                       IF root.level <= DEBUG
                       THEN "Please report this bug and attach the output to the bug report"
                       ELSE "Please run this command again and turn on verbose mode (add '-vvvv' as argument).">>]
  ELSE [ret |-> None, exc |-> Some(o.exc), logged |-> <<>>]

\* lines 130-133: logging.basicConfig, then the wrapped function starts
GuardEnter ==
  /\ guard.pc = "Idle"
  /\ guard' = [pc |-> "Running",
               root |-> [level |-> WARNING, fmt |-> FMT_BASIC, handlers |-> 1],
               verbose |-> None, outcome |-> None,
               ret |-> None, exc |-> None, logged |-> <<>>, shutdowns |-> 0]
  /\ UNCHANGED <<environ, parent, proc, filters, runner, req>>

\* the wrapped function sets the verbosity it was given
GuardedReconfigure(verbose_level) ==
  /\ guard.pc = "Running"
  /\ guard.verbose = None
  /\ guard' = [guard EXCEPT !.verbose = Some(verbose_level),
                            !.root = reconfigure_logging(@, verbose_level)]
  /\ UNCHANGED <<environ, parent, proc, filters, runner, req>>

\* the wrapped function ends with outcome o and the try statement handles it
GuardedFinish(o) ==
  /\ guard.pc = "Running"
  /\ LET handled == guard_clauses(guard.root, o)
     IN  guard' = [guard EXCEPT !.pc = "Finally", !.outcome = Some(o),
                                !.ret = handled.ret, !.exc = handled.exc,
                                !.logged = handled.logged]
  /\ UNCHANGED <<environ, parent, proc, filters, runner, req>>

\* variant: logging.shutdown() after the try statement, not in its finally
shutdown_calls_after_try(g) == IF g.exc = None THEN 1 ELSE 0

\* lines 147-148: the calls of logging.shutdown() as the try statement is left
shutdown_calls(g) == 1

\* line 148: logging.shutdown(), then the value is returned or the exception leaves
GuardFinally ==
  /\ guard.pc = "Finally"
  /\ guard' = [guard EXCEPT !.pc = "Done", !.shutdowns = @ + shutdown_calls(guard)]
  /\ UNCHANGED <<environ, parent, proc, filters, runner, req>>

\* what a compiler wrapper run as the guarded function did
wrapper_outcome(w) ==
  IF w.pc = "Exit" THEN Returns(w.ret[1]) ELSE Raises(w.exc[1])

\* the root logger of the process: as the wrapper's reconfigure_logging left
\* it, or else as basicConfig did
process_root(g, w) == IF w.root = RootLogger THEN g.root ELSE w.root

\* lines 134-146 with the wrapper of wrapper_entry_point as the function:
\* the wrapper has returned or raised
GuardedWrapperFinish ==
  /\ guard.pc = "Running"
  /\ proc[1].pc \in {"Exit", "Raised"}
  /\ LET o == wrapper_outcome(proc[1])
         handled == guard_clauses(process_root(guard, proc[1]), o)
     IN  guard' = [guard EXCEPT !.pc = "Finally", !.outcome = Some(o),
                                !.root = process_root(guard, proc[1]),
                                !.ret = handled.ret, !.exc = handled.exc,
                                !.logged = handled.logged]
  /\ UNCHANGED <<environ, parent, proc, filters, runner, req>>

-----------------------------------------------------------------------------
(* run_command: one child process, its output captured and split in lines. *)

MaxOutLen == 3

\* bytes a child writes: a letter, line ends, and the two bytes of the UTF-8
\* encoding of U+00E9, each of which is invalid by itself
OutputBytes == {"a", "\n", "\r", "xc3", "xa9"}
Outputs == SeqsUpTo(OutputBytes, MaxOutLen)
ChildStatuses == {0, 1, 2}
Commands == {<<"clang", "-v">>}
getcwd == <<"/", "w">>
Cwds == {None, Some(<<>>), Some(<<"s">>), Some(<<"/", "s">>)}

\* os.path.abspath of a directory (no normalisation of "." and "..")
abspath(path) ==
  IF path # <<>> /\ path[1] = "/" THEN path ELSE getcwd \o <<"/">> \o path

\* bytes.decode('utf-8'): the text, or UnicodeDecodeError
RECURSIVE decode_utf8(_)
decode_utf8(bytes) ==
  IF bytes = <<>> THEN [ok |-> TRUE, text |-> <<>>]
  ELSE IF bytes[1] = "xc3"
    THEN IF Len(bytes) >= 2 /\ bytes[2] = "xa9"
         THEN LET rest == decode_utf8(Tail(Tail(bytes)))
              IN  [ok |-> rest.ok, text |-> <<"U00e9">> \o rest.text]
         ELSE [ok |-> FALSE, text |-> <<>>]
  ELSE IF bytes[1] = "xa9" THEN [ok |-> FALSE, text |-> <<>>]
  ELSE LET rest == decode_utf8(Tail(bytes))
       IN  [ok |-> rest.ok, text |-> <<bytes[1]>> \o rest.text]

\* line 78: subprocess hands over bytes, which are decoded
decode_when_needed(result) == decode_utf8(result)

\* str.splitlines(): lines end at "\n", "\r" or "\r\n"; the ends are dropped
\* and no empty line follows the last end
RECURSIVE splitlines(_)
splitlines(text) ==
  IF text = <<>> THEN <<>>
  ELSE LET ends == {i \in 1..Len(text) : text[i] \in {"\n", "\r"}}
       IN  IF ends = {} THEN <<text>>
           ELSE LET i == CHOOSE e \in ends : \A f \in ends : e <= f
                    n == IF text[i] = "\r" /\ i < Len(text) /\ text[i + 1] = "\n"
                         THEN 2 ELSE 1
                IN  <<SubSeq(text, 1, i - 1)>>
                      \o splitlines(SubSeq(text, i + n, Len(text)))

\* an exception of run_command
RunnerError(type, returncode, output) ==
  [type |-> type, returncode |-> returncode, output |-> output]

\* lines 80-82: the directory the child runs in
RunnerCall(command, cwd) ==
  /\ runner.pc = "Idle"
  /\ runner' = [pc |-> "Called", command |-> command,
                directory |-> IF cwd # None /\ cwd[1] # <<>>
                              THEN abspath(cwd[1]) ELSE getcwd,
                spawned |-> 0, status |-> None, output |-> <<>>,
                ret |-> None, exc |-> None]
  /\ UNCHANGED <<environ, parent, proc, filters, guard, req>>

\* lines 83-85: subprocess.check_output runs the child to its end, with
\* stderr merged in stdout
ChildRun(status, output) ==
  /\ runner.pc = "Called"
  /\ runner' = [runner EXCEPT !.pc = "Exited", !.spawned = @ + 1,
                              !.status = Some(status), !.output = output]
  /\ UNCHANGED <<environ, parent, proc, filters, guard, req>>

\* lines 86-89: the lines are returned, or CalledProcessError is raised again
\* with its output replaced by the lines; a failed decode raises in either
RunnerFinish ==
  /\ runner.pc = "Exited"
  /\ LET decoded == decode_when_needed(runner.output)
         status == runner.status[1]
     IN  runner' =
           IF ~decoded.ok
           THEN [runner EXCEPT !.pc = "Done",
                   !.exc = Some(RunnerError("UnicodeDecodeError", None, <<>>))]
           ELSE IF status = 0
           THEN [runner EXCEPT !.pc = "Done",
                   !.ret = Some(splitlines(decoded.text))]
           ELSE [runner EXCEPT !.pc = "Done",
                   !.exc = Some(RunnerError("CalledProcessError", Some(status),
                                            splitlines(decoded.text)))]
  /\ UNCHANGED <<environ, parent, proc, filters, guard, req>>

-----------------------------------------------------------------------------
(* analyzer.decorators.require: a function called only with its keys.      *)

MaxRequired == 2

Keys == {"clang", "directory", "file"}
RequiredLists == SeqsUpTo(Keys, MaxRequired)
\* opts is a dictionary; the wrapper looks at its keys only
OptsKeys == SUBSET Keys
DecoratedOutcomes ==
  {Returns(0), Returns(7), ReturnsNone, Raises("Exception"),
   Raises("KeyboardInterrupt"), Raises("SystemExit")}

\* variant: only the first required key is looked for
precondition_first_only(required, opts) ==
  IF required # <<>> /\ required[1] \notin opts THEN Some(required[1]) ELSE None

\* precondition: the first required key that is not in opts, for which
\* KeyError is raised
precondition(required, opts) ==
  LET missing == {i \in 1..Len(required) : required[i] \notin opts}
  IN  IF missing = {} THEN None
      ELSE Some(required[CHOOSE i \in missing : \A j \in missing : i <= j])

\* except Exception (line 35)
require_catches(exc) == IsException(exc)

\* require(required)(function)
Decorate(required) ==
  /\ req.pc = "Idle"
  /\ req' = [pc |-> "Decorated", required |-> required, opts |-> {},
             called |-> 0, outcome |-> None, result |-> None, logged |-> <<>>]
  /\ UNCHANGED <<environ, parent, proc, filters, guard, runner>>

\* wrapper(opts, cont): precondition, then the function; an Exception of
\* either is logged and None returned
RequireCall(opts, o) ==
  /\ req.pc = "Decorated"
  /\ LET missing == precondition(req.required, opts)
         entered == [req EXCEPT !.pc = "Done", !.opts = opts]
         ran == [entered EXCEPT !.called = @ + 1, !.outcome = Some(o)]
     IN  req' =
           IF missing # None
           THEN [entered EXCEPT !.result = Some(ReturnsNone),
                                !.logged = <<<<"KeyError", missing[1]>>>>]
           ELSE IF o.kind = "raise" /\ require_catches(o.exc)
           THEN [ran EXCEPT !.result = Some(ReturnsNone),
                            !.logged = <<<<o.exc, "">>>>]
           ELSE [ran EXCEPT !.result = Some(o)]
  /\ UNCHANGED <<environ, parent, proc, filters, guard, runner>>

-----------------------------------------------------------------------------
(* Specifications.                                                         *)

NoFilters == <<>>
GuardIdle == [pc |-> "Idle"]
RunnerIdle == [pc |-> "Idle"]
RequireIdle == [pc |-> "Idle"]

Init ==
  /\ environ \in {None} \cup {Some(t) : t \in ForeignTransports}
  /\ parent = None
  /\ proc = [p \in Procs |-> NotStarted]
  /\ filters = NoFilters
  /\ guard = GuardIdle
  /\ runner = RunnerIdle
  /\ req = RequireIdle

\* no wrapper environment: the duplicate filters and the guard run by themselves
InitIdle ==
  /\ environ = None
  /\ parent = None
  /\ proc = [p \in Procs |-> NotStarted]
  /\ filters = NoFilters
  /\ guard = GuardIdle
  /\ runner = RunnerIdle
  /\ req = RequireIdle

\* one wrapper process, with or without an orchestrating process
Next ==
  \/ \E args \in Configs : ParentSetEnv(args)
  \/ \E argv \in Argvs : Spawn(1, argv)
  \/ LoadConfig(1)
  \/ ResolvePersonality(1)
  \/ \E o \in CompileOutcomes : Compile(1, o)
  \/ \E o \in FunctionOutcomes : Report(1, o)
  \/ Return(1)

Spec == Init /\ [][Next]_vars

\* one wrapper process up to the choice of its compiler, under every short argv[0]
NextPersonality ==
  \/ \E args \in Configs : ParentSetEnv(args)
  \/ \E argv \in GeneratedArgvs : Spawn(1, argv)
  \/ LoadConfig(1)
  \/ ResolvePersonality(1)

SpecPersonality == Init /\ [][NextPersonality]_vars

\* configurations of the codec check: every verbose level, every pair of
\* one-character paths, and every path up to MaxPathLen in either field
PathAlphabet == {" ", "\"", "\\", "n", "\n", "U00e9"}
VerboseLevels == 0..MaxVerbose \cup {10 + MaxVerbose}
CodecConfigs ==
  {[verbose |-> v, cc |-> P_clang, cxx |-> P_clangpp] : v \in VerboseLevels}
    \cup {[verbose |-> 0, cc |-> a, cxx |-> b] :
            a \in SeqsUpTo(PathAlphabet, 1), b \in SeqsUpTo(PathAlphabet, 1)}
    \cup {[verbose |-> 1, cc |-> a, cxx |-> P_spaced] : a \in SeqsUpTo(PathAlphabet, MaxPathLen)}
    \cup {[verbose |-> 1, cc |-> P_quoted, cxx |-> b] : b \in SeqsUpTo(PathAlphabet, MaxPathLen)}

\* the orchestrating process encodes, one wrapper process decodes
NextCodec ==
  \/ \E args \in CodecConfigs : ParentSetEnv(args)
  \/ Spawn(1, <<N_intercept_cc>>)
  \/ LoadConfig(1)

SpecCodec == Init /\ [][NextCodec]_vars

\* NumProcs wrapper processes of one build, interleaved
ConcArgvs == {<<N_intercept_cc, A_c>>, <<N_intercept_cxx, A_file>>}
ConcCompileOutcomes == {Exited(0), Exited(1), Raises("OSError")}
ConcFunctionOutcomes == {Returns(0), Raises("Exception")}

NextConc ==
  \/ \E args \in Configs : ParentSetEnv(args)
  \/ \E p \in Procs :
       \/ \E argv \in ConcArgvs : Spawn(p, argv)
       \/ LoadConfig(p)
       \/ ResolvePersonality(p)
       \/ \E o \in ConcCompileOutcomes : Compile(p, o)
       \/ \E o \in ConcFunctionOutcomes : Report(p, o)
       \/ Return(p)

SpecConc == Init /\ [][NextConc]_vars

\* Wrapper processes called by the same names from different directories and
\* with different arguments, up to the choice of the compiler.
D_bin == <<"/", "b", "i", "n", "/">>
D_cxx == <<"/", "o", "p", "t", "/", "c", "+", "+", "/">>
PureArgvs ==
  {<<N_intercept_cc, A_c>>, <<D_cxx \o N_intercept_cc, A_file, A_c>>,
   <<N_intercept_cxx>>, <<D_bin \o N_intercept_cxx, A_c, A_file>>}

NextPure ==
  \/ \E args \in Configs : ParentSetEnv(args)
  \/ \E p \in Procs :
       \/ \E argv \in PureArgvs : Spawn(p, argv)
       \/ LoadConfig(p)
       \/ ResolvePersonality(p)

SpecPure == Init /\ [][NextPure]_vars

\* two duplicate filters, made and called in any order
NextDup ==
  \/ \E f \in FilterIds, h \in HashFunctions : duplicate_check(f, h)
  \/ \E f \in FilterIds, entry \in Entries : predicate(f, entry)

SpecDup == InitIdle /\ [][NextDup]_vars

\* one function run under command_entry_point
NextGuard ==
  \/ GuardEnter
  \/ \E v \in 0..MaxVerbose : GuardedReconfigure(v)
  \/ \E o \in GuardedOutcomes : GuardedFinish(o)
  \/ GuardFinally

SpecGuard == InitIdle /\ [][NextGuard]_vars

\* a compiler wrapper run under command_entry_point: the process starts, the
\* guard is entered, the wrapper runs inside it, the guard is left
NextGuarded ==
  \/ \E args \in Configs : ParentSetEnv(args)
  \/ \E argv \in ConcArgvs : Spawn(1, argv)
  \/ (proc[1].pc = "Start" /\ GuardEnter)
  \/ (guard.pc = "Running" /\ LoadConfig(1))
  \/ (guard.pc = "Running" /\ ResolvePersonality(1))
  \/ (guard.pc = "Running" /\ \E o \in CompileOutcomes : Compile(1, o))
  \/ (guard.pc = "Running" /\ \E o \in FunctionOutcomes : Report(1, o))
  \/ (guard.pc = "Running" /\ Return(1))
  \/ GuardedWrapperFinish
  \/ GuardFinally

SpecGuarded == Init /\ [][NextGuarded]_vars

\* one call of run_command
NextRunner ==
  \/ \E command \in Commands, cwd \in Cwds : RunnerCall(command, cwd)
  \/ \E status \in ChildStatuses, output \in Outputs : ChildRun(status, output)
  \/ RunnerFinish

SpecRunner == InitIdle /\ [][NextRunner]_vars

\* one function decorated with require and called once
NextRequire ==
  \/ \E required \in RequiredLists : Decorate(required)
  \/ \E opts \in OptsKeys, o \in DecoratedOutcomes : RequireCall(opts, o)

SpecRequire == InitIdle /\ [][NextRequire]_vars

-----------------------------------------------------------------------------
(* Properties of the wrapper.                                              *)

\* the process inherited the transport value the orchestrating process wrote
Inherited(w) == parent # None /\ w.pc # "NotStarted" /\ w.environ = environ

IsWrapperConfig(j) ==
  /\ j.type = "obj"
  /\ {K_verbose, K_cc, K_cxx} \subseteq DOMAIN j.v
  /\ j.v[K_verbose].type = "int"
  /\ j.v[K_cc].type = "str"
  /\ j.v[K_cxx].type = "str"

\* the transport value is present and parses as an encoded WrapperConfig
Decodable(env) ==
  /\ env # None
  /\ json_loads(env[1]).ok
  /\ IsWrapperConfig(json_loads(env[1]).val)

\* the WrapperConfig a process decoded
Decoded(w) ==
  [verbose |-> w.parameters[1].v[K_verbose].v,
   cc |-> w.parameters[1].v[K_cc].v,
   cxx |-> w.parameters[1].v[K_cxx].v]

\* C1: once the real compiler has returned an exit code, the wrapper does not
\* fail any more and the value it returns is that exit code, whatever the
\* decorated function returns or raises.
C1_ExitCodeIsCompilers ==
  \A p \in Procs :
    LET w == proc[p]
    IN  /\ w.result # None => w.pc \in {"Compiled", "Reported", "Exit"}
        /\ w.pc = "Exit" => w.result # None /\ w.ret = w.result
        /\ w.ret # None => w.pc = "Exit"

\* a wrapper returned the compiler's exit code 1 after the function was called and raised
C1_Witness ==
  \E p \in Procs :
    /\ proc[p].pc = "Exit"
    /\ proc[p].ret = Some(1)
    /\ Len(proc[p].reported) = 1
    /\ proc[p].logged = <<"Compiler wrapper failed complete.">>

\* C2: with the transport value absent or not parseable as an encoded
\* WrapperConfig, the wrapper fails before any compilation: the real compiler is
\* never invoked and the decorated function never called.
C2_MalformedConfigNeverCompiles ==
  \A p \in Procs :
    LET w == proc[p]
    IN  (w.pc # "NotStarted" /\ ~Decodable(w.environ)) =>
          /\ w.executed = <<>>
          /\ w.reported = <<>>
          /\ w.result = None /\ w.ret = None

\* C3: a basename holding "c++", after any text or none, selects the
\* configured cxx path, and every other basename the cc path.
C3_PersonalityByCxxSubstring ==
  \A p \in Procs :
    LET w == proc[p]
    IN  (w.compiler # None /\ Decodable(w.environ)) =>
          w.compiler[1] = IF is_cxx_any_prefix(basename(w.argv[1]))
                          THEN Decoded(w).cxx ELSE Decoded(w).cc

\* the wrapper invoked as clang++ under the configuration of the example
ClangppCase(w) ==
  /\ w.compiler # None
  /\ basename(w.argv[1]) = N_clangpp
  /\ parent = Some(ClangConfig)
  /\ Inherited(w)

\* C4 as stated: invoked as clang++ with {cc: /usr/bin/clang, cxx:
\* /usr/bin/clang++}, the wrapper selects /usr/bin/clang++.
C4_ClangppSelectsCxx ==
  \A p \in Procs : ClangppCase(proc[p]) => proc[p].compiler[1] = P_clangpp

\* C4 amended: invoked as clang++ (a name without "c++") with that
\* configuration, the wrapper selects /usr/bin/clang; invoked as
\* intercept-c++ it selects /usr/bin/clang++.
C4_ClangppSelectsCc ==
  \A p \in Procs :
    LET w == proc[p]
    IN  /\ ClangppCase(w) => w.compiler[1] = P_clang
        /\ ( /\ w.compiler # None
             /\ basename(w.argv[1]) = N_intercept_cxx
             /\ parent = Some(ClangConfig)
             /\ Inherited(w) ) => w.compiler[1] = P_clangpp

C4_Witness ==
  \E p \in Procs :
    /\ ClangppCase(proc[p])
    /\ proc[p].executed # <<>>
    /\ proc[p].executed[1][1] = P_clang

C6_CodecRoundTrip ==
  \A p \in Procs :
    LET w == proc[p]
    IN  (Inherited(w) /\ w.pc # "Start") =>
          /\ w.pc # "Raised"
          /\ w.parameters # None
          /\ IsWrapperConfig(w.parameters[1])
          /\ DOMAIN w.parameters[1].v = {K_verbose, K_cc, K_cxx}
          /\ Decoded(w) = parent[1]

\* a configuration whose path holds a backslash and a quote was decoded
C6_Witness ==
  \E p \in Procs :
    /\ Inherited(proc[p])
    /\ proc[p].pc = "ConfigLoaded"
    /\ parent[1].cc = <<"\\", "\"">>

\* C7: every wrapper of the build decodes the configuration the orchestrating
\* process encoded, selects its compiler from its own name, and returns the
\* exit code of its own compiler run, under every interleaving.
C7_WrappersIndependent ==
  \A p \in Procs :
    LET w == proc[p]
    IN  /\ (Inherited(w) /\ w.parameters # None) =>
             /\ IsWrapperConfig(w.parameters[1])
             /\ Decoded(w) = parent[1]
             /\ \A q \in Procs :
                  (Inherited(proc[q]) /\ proc[q].parameters # None) =>
                     proc[q].parameters = w.parameters
        /\ (Inherited(w) /\ w.compiler # None) =>
             w.compiler[1] = IF basename(w.argv[1]) = N_intercept_cxx
                             THEN parent[1].cxx ELSE parent[1].cc
        /\ w.result # None =>
             /\ w.executed = <<w.command[1]>>
             /\ w.command[1][1] = w.compiler[1]
        /\ w.pc = "Exit" => w.ret = w.result

\* two wrappers of one build ended with different exit codes, one after a
\* reporting failure
C7_Witness ==
  \E p, q \in Procs :
    /\ Inherited(proc[p]) /\ Inherited(proc[q])
    /\ proc[p].pc = "Exit" /\ proc[q].pc = "Exit"
    /\ proc[p].ret = Some(0) /\ proc[q].ret = Some(1)
    /\ proc[p].logged # <<>> /\ proc[q].logged = <<>>
    /\ proc[p].compiler # proc[q].compiler


-----------------------------------------------------------------------------
(* Properties of the duplicate filter.                                     *)

HashOfCall(f, i) == filters[f].hash_function[filters[f].calls[i].entry]

\* the predicate f was called in this step
Called(f) ==
  /\ f \in DOMAIN filters
  /\ Len(filters'[f].calls) = Len(filters[f].calls) + 1

\* C8: the i-th call of a predicate returns false iff no earlier call had a
\* record of the same hash; a call returning false adds exactly that hash to
\* the state, a call returning true leaves the state as it was.
C8_SeenIffEarlierHash ==
  /\ [](\A f \in DOMAIN filters :
          \A i \in 1..Len(filters[f].calls) :
            filters[f].calls[i].result =
              (\E j \in 1..(i - 1) : HashOfCall(f, j) = HashOfCall(f, i)))
  /\ [][\A f \in FilterIds :
          Called(f) =>
            LET call == filters'[f].calls[Len(filters'[f].calls)]
                h == filters[f].hash_function[call.entry]
            IN  IF call.result
                THEN h \in filters[f].state /\ filters'[f].state = filters[f].state
                ELSE h \notin filters[f].state
                     /\ filters'[f].state = filters[f].state \cup {h}]_vars

\* records A, A, B with hash(A) # hash(B) gave false, true, false
C8_Witness ==
  \E f \in DOMAIN filters :
    /\ filters[f].hash_function["A"] # filters[f].hash_function["B"]
    /\ filters[f].calls = <<[entry |-> "A", result |-> FALSE],
                            [entry |-> "A", result |-> TRUE],
                            [entry |-> "B", result |-> FALSE]>>

\* C9: no step removes a fingerprint from a filter's state, and the state is
\* always the set of the hashes of the records passed so far.
C9_StateGrows ==
  /\ [][\A f \in DOMAIN filters : filters[f].state \subseteq filters'[f].state]_vars
  /\ [](\A f \in DOMAIN filters :
          filters[f].state = {HashOfCall(f, i) : i \in 1..Len(filters[f].calls)})

\* a state of two fingerprints after more calls than fingerprints
C9_Witness ==
  \E f \in DOMAIN filters :
    /\ Cardinality(filters[f].state) = 2
    /\ Len(filters[f].calls) > 2

-----------------------------------------------------------------------------
(* Properties of the entry guard.                                          *)

\* C10 as stated: a returned number n gives n, an interrupt gives 130, and
\* every other failure the function raises gives 64 with a logged diagnostic.
C10_GuardResult ==
  guard.pc = "Done" =>
    LET o == guard.outcome[1]
    IN  /\ o.kind = "return" => guard.ret = Some(o.code)
        /\ (o.kind = "raise" /\ o.exc = "KeyboardInterrupt") => guard.ret = Some(130)
        /\ (o.kind = "raise" /\ o.exc # "KeyboardInterrupt") =>
              /\ guard.ret = Some(64)
              /\ guard.logged # <<>> /\ guard.logged[1] = "Internal error."

\* C10 amended: a returned number n gives n, an interrupt gives 130, a failure
\* that is an Exception gives 64 with a logged diagnostic, and any other
\* exception (SystemExit) leaves the guard without a returned value.
C10_GuardResultOfExceptions ==
  guard.pc = "Done" =>
    LET o == guard.outcome[1]
    IN  /\ o.kind = "return" => guard.ret = Some(o.code) /\ guard.exc = None
        /\ (o.kind = "raise" /\ o.exc = "KeyboardInterrupt") =>
              guard.ret = Some(130) /\ guard.exc = None
        /\ (o.kind = "raise" /\ o.exc = "Exception") =>
              /\ guard.ret = Some(64) /\ guard.exc = None
              /\ guard.logged # <<>> /\ guard.logged[1] = "Internal error."
        /\ (o.kind = "raise" /\ o.exc = "SystemExit") =>
              guard.ret = None /\ guard.exc = Some("SystemExit")

\* a function that raised an Exception at full verbosity ended as 64
C10_Witness ==
  /\ guard.pc = "Done"
  /\ guard.outcome = Some(Raises("Exception"))
  /\ guard.ret = Some(64)
  /\ guard.root.level <= 10


\* C11: logging.shutdown() has run exactly once when the guard is left, after
\* a return, an interrupt, a caught failure and an exception that leaves the
\* guard, and not before.
C11_ShutdownOnce ==
  /\ guard.pc \in {"Running", "Finally"} => guard.shutdowns = 0
  /\ guard.pc = "Done" => guard.shutdowns = 1

\* an exception the guard does not convert left it, after one shutdown
C11_Witness ==
  /\ guard.pc = "Done"
  /\ guard.exc = Some("SystemExit")
  /\ guard.ret = None
  /\ guard.shutdowns = 1

\* C12: the guard yields 64 only when the wrapped function raised a failure,
\* and 130 only when it was interrupted; a passed-through exit code is neither.
C12_ReservedCodesUnambiguous ==
  guard.pc = "Done" =>
    LET o == guard.outcome[1]
    IN  /\ guard.ret = Some(64) => (o.kind = "raise" /\ o.exc # "KeyboardInterrupt")
        /\ guard.ret = Some(130) => (o.kind = "raise" /\ o.exc = "KeyboardInterrupt")
        /\ o.kind = "return" => guard.ret \notin {Some(64), Some(130)}


\* the root logger as basicConfig of line 130 leaves it
BasicConfigured == [level |-> WARNING, fmt |-> FMT_BASIC, handlers |-> 1]

\* C13: reconfigure_logging(0) leaves threshold, format and handlers as they
\* were; for a level >= 1 the threshold is WARNING - 10 * level, and 0 (the
\* fully verbose NOTSET) where that would be negative.
C13_ThresholdByLevel ==
  (guard.pc # "Idle" /\ guard.verbose # None) =>
    LET v == guard.verbose[1]
    IN  /\ v = 0 => guard.root = BasicConfigured
        /\ v >= 1 =>
             /\ 30 - 10 * v >= 0 => guard.root.level = 30 - 10 * v
             /\ 30 - 10 * v < 0 => guard.root.level = 0
             /\ guard.root.level >= 0
        /\ v = 2 => guard.root.level = 30 - 20

\* a level past the floor: WARNING - 10 * 4 would be negative
C13_Witness ==
  /\ guard.pc = "Running"
  /\ guard.verbose = Some(4)
  /\ guard.root.level = 0

\* C14: for a level >= 1 the format prints the function name exactly when the
\* level is above 3.
C14_FuncNameAboveThree ==
  (guard.pc # "Idle" /\ guard.verbose # None /\ guard.verbose[1] >= 1) =>
    ((\E i \in 1..Len(guard.root.fmt) : guard.root.fmt[i] = "funcName")
       <=> guard.verbose[1] > 3)

\* level 3 is the last one without the function name, level 4 the first with
C14_Witness ==
  /\ guard.pc = "Running"
  /\ guard.verbose = Some(3)
  /\ guard.root.fmt = <<"name", "levelname", "message">>


\* the last component of a path: what follows its last "/"
NameOf(path) ==
  CHOOSE s \in {SubSeq(path, i, Len(path)) : i \in 1..(Len(path) + 1)} :
    /\ \A j \in 1..Len(s) : s[j] # "/"
    /\ Len(s) = Len(path) \/ path[Len(path) - Len(s)] = "/"

\* C15: two wrapper executions called by the same basename with the same
\* decoded configuration select the same compiler, whatever the directory of
\* argv[0], the arguments and the other executions.
C15_CompilerIsFunctionOfNameAndConfig ==
  \A p, q \in Procs :
    (/\ proc[p].parameters # None
     /\ proc[p].parameters = proc[q].parameters
     /\ NameOf(proc[p].argv[1]) = NameOf(proc[q].argv[1])
     /\ proc[p].pc = "PersonalityResolved"
     /\ proc[q].pc \in {"PersonalityResolved", "Raised"})
    => (proc[q].pc = "PersonalityResolved" /\ proc[p].compiler = proc[q].compiler)

\* the same name from two directories, one of them holding "c++", with
\* different arguments
C15_Witness ==
  \E p, q \in Procs :
    /\ proc[p].argv = <<N_intercept_cc, A_c>>
    /\ proc[q].argv = <<D_cxx \o N_intercept_cc, A_file, A_c>>
    /\ proc[p].parameters # None
    /\ proc[p].parameters = proc[q].parameters
    /\ proc[p].compiler = Some(P_clang)
    /\ proc[q].compiler = Some(P_clang)


\* a sequence of lines: strings without a line end
IsLines(lines) ==
  \A i \in 1..Len(lines) : \A j \in 1..Len(lines[i]) : lines[i][j] \notin {"\n", "\r"}

\* C16: a call of run_command runs one child; when the child exits with 0 the
\* call returns the captured output as lines, otherwise it raises
\* CalledProcessError carrying the exit status and the output as lines.
C16_OneChildLinesOrStatus ==
  runner.pc = "Done" =>
    /\ runner.spawned = 1
    /\ runner.status = Some(0) =>
         (runner.exc = None /\ runner.ret # None /\ IsLines(runner.ret[1]))
    /\ runner.status # Some(0) =>
         /\ runner.ret = None /\ runner.exc # None
         /\ runner.exc[1].type = "CalledProcessError"
         /\ runner.exc[1].returncode = runner.status
         /\ IsLines(runner.exc[1].output)


\* C17: in a wrapper execution with a valid configuration the compiler is run
\* at most once and the decorated function is called at most once, only
\* after the compiler returned, with the selected compiler, the command that
\* was run and its exit code; an execution that reaches its return has done
\* both exactly once.
C17_CompileThenReportOnce ==
  LET w == proc[1]
  IN  (w.pc # "NotStarted" /\ Decodable(w.environ)) =>
        /\ Len(w.executed) <= 1
        /\ Len(w.reported) <= 1
        /\ w.result = None => w.reported = <<>>
        /\ w.reported # <<>> =>
             /\ w.result # None
             /\ w.executed = <<w.command[1]>>
             /\ w.reported[1].compiler = w.compiler[1]
             /\ w.reported[1].command = w.executed[1]
             /\ w.reported[1].result = w.result[1]
        /\ w.pc \in {"Reported", "Exit"} =>
             (Len(w.executed) = 1 /\ Len(w.reported) = 1)

\* a C++ compilation that failed was reported with its exit code
C17_Witness ==
  /\ proc[1].pc = "Exit"
  /\ Decodable(proc[1].environ)
  /\ proc[1].compiler = Some(P_clangpp)
  /\ Len(proc[1].reported) = 1
  /\ proc[1].reported[1].compiler = P_clangpp
  /\ proc[1].reported[1].result = 1
  /\ proc[1].executed = <<proc[1].reported[1].command>>


\* some required key is not among the keys of opts
KeyMissing == \E i \in 1..Len(req.required) : req.required[i] \notin req.opts

\* C18: the decorated function is not called when a required key is missing:
\* the wrapper logs an error and returns None.  With all keys present the
\* function's result is returned, and any failure it raises is logged and
\* turned into None.
C18_RequireGuardsCall ==
  req.pc = "Done" =>
    /\ KeyMissing =>
         (req.called = 0 /\ req.logged # <<>> /\ req.result = Some(ReturnsNone))
    /\ ~KeyMissing =>
         /\ req.called = 1
         /\ req.outcome[1].kind # "raise" => req.result = req.outcome
         /\ req.outcome[1].kind = "raise" =>
              (req.logged # <<>> /\ req.result = Some(ReturnsNone))

\* C18, amended: as above for a failure that is an Exception; an exception
\* that is not one (KeyboardInterrupt, SystemExit) leaves the wrapper unlogged.
C18_RequireGuardsCallOfExceptions ==
  req.pc = "Done" =>
    /\ KeyMissing =>
         /\ req.called = 0
         /\ Len(req.logged) = 1 /\ req.logged[1][1] = "KeyError"
         /\ req.logged[1][2] \notin req.opts
         /\ req.result = Some(ReturnsNone)
    /\ ~KeyMissing =>
         /\ req.called = 1
         /\ req.outcome[1].kind # "raise" =>
              (req.result = req.outcome /\ req.logged = <<>>)
         /\ (req.outcome[1].kind = "raise"
               /\ req.outcome[1].exc \notin {"KeyboardInterrupt", "SystemExit"}) =>
              (Len(req.logged) = 1 /\ req.result = Some(ReturnsNone))
         /\ (req.outcome[1].kind = "raise"
               /\ req.outcome[1].exc \in {"KeyboardInterrupt", "SystemExit"}) =>
              (req.logged = <<>> /\ req.result = req.outcome)

\* the second of two required keys is missing: the function was not called
C18_Witness ==
  /\ req.pc = "Done"
  /\ req.required = <<"clang", "file">>
  /\ req.opts = {"clang", "directory"}
  /\ req.called = 0
  /\ req.result = Some(ReturnsNone)


\* C19: each duplicate_check call makes a predicate with an empty state of
\* its own: the first call of any predicate returns false whatever the others
\* have seen, a call of one predicate is answered from its own state and
\* leaves every other predicate as it was.
C19_FiltersIndependent ==
  /\ [](\A f \in DOMAIN filters :
          filters[f].calls # <<>> => ~filters[f].calls[1].result)
  /\ [][\A f \in FilterIds :
          /\ (f \notin DOMAIN filters /\ f \in DOMAIN filters') =>
               /\ filters'[f].state = {}
               /\ \A g \in DOMAIN filters : filters'[g] = filters[g]
          /\ Called(f) =>
               /\ filters'[f].calls[Len(filters'[f].calls)].result =
                    (filters[f].hash_function[
                       filters'[f].calls[Len(filters'[f].calls)].entry]
                     \in filters[f].state)
               /\ \A g \in DOMAIN filters \ {f} : filters'[g] = filters[g]]_vars

\* two predicates with the same hash function: q reported A as not seen
\* although p has seen it
C19_Witness ==
  /\ DOMAIN filters = {"p", "q"}
  /\ filters["p"].hash_function = filters["q"].hash_function
  /\ filters["p"].calls = <<[entry |-> "A", result |-> FALSE],
                            [entry |-> "A", result |-> TRUE]>>
  /\ filters["q"].calls = <<[entry |-> "A", result |-> FALSE]>>


\* the decorated function of the wrapper was interrupted
ReportInterrupted(w) ==
  \/ w.swallowed = Some("KeyboardInterrupt")
  \/ (w.result # None /\ w.exc = Some("KeyboardInterrupt"))

\* C20: for a compiler wrapper run under the guard, an interrupt during the
\* compiler call ends the process with 130 and the decorated function never
\* called; an interrupt during the decorated function is swallowed by the
\* wrapper and the process ends with the compiler's exit code.
C20_InterruptByStage ==
  guard.pc = "Done" =>
    LET w == proc[1]
    IN  /\ (w.result = None /\ w.exc = Some("KeyboardInterrupt")) =>
             (guard.ret = Some(130) /\ guard.exc = None /\ w.reported = <<>>)
        /\ ReportInterrupted(w) =>
             (w.pc = "Exit" /\ guard.ret = w.result /\ guard.exc = None)

\* the compiler exited with 1, the decorated function was interrupted, the
\* process ended with 1
C20_Witness ==
  /\ guard.pc = "Done"
  /\ proc[1].swallowed = Some("KeyboardInterrupt")
  /\ proc[1].result = Some(1)
  /\ Len(proc[1].reported) = 1
  /\ guard.ret = Some(1)
  /\ guard.shutdowns = 1

====
